---- MODULE Spec2Model ----
(***************************************************************************)
(* compute_sales.py: a price catalogue is built from loosely typed JSON    *)
(* entries (create_price_catalogue), sale records are priced against it    *)
(* (compute_sales), and main loads both files, runs the two functions and  *)
(* reports.                                                                *)
(*                                                                         *)
(* JSON values are pairs <<type, content>>.  Python floats are modelled as a *)
(* binary floating-point format with round-to-nearest-even, overflow to    *)
(* infinity and NaN, scaled down from binary64 (53 significand bits) to    *)
(* MantBits significand bits so that the arithmetic stays within TLC's     *)
(* integers: a finite float is an integer count n of units 2^-FracBits.    *)
(***************************************************************************)
EXTENDS Integers, Sequences, FiniteSets, TLC

VARIABLES pc, argc, catalogue_data, sales_data, price_map, cidx,
          price_catalogue, total_cost, sales_details, sidx, out, exc,
          exit_code, saved

vars == <<pc, argc, catalogue_data, sales_data, price_map, cidx,
          price_catalogue, total_cost, sales_details, sidx, out, exc,
          exit_code, saved>>

(***************************************************************************)
(* Bounds of the model.                                                    *)
(***************************************************************************)
\* significand bits of the scaled-down float format (binary64 has 53)
MantBits == 5
\* largest exponent of the scaled-down format: the largest finite float is
\* (2^MantBits - 1) * 2^MaxExp units
MaxExp == 2
\* fractional bits of the unit: 1.0 is 2^FracBits units
FracBits == 1
\* longest catalogue list handed to create_price_catalogue directly
MaxCat == 2
\* longest sales list over the full record domain handed to compute_sales
MaxSales == 2
\* longest sales list over the small domain of priced records
MaxPerm == 3
\* longest list a file loaded by main holds
MaxLoad == 1

(***************************************************************************)
(* Python float arithmetic.                                                *)
(***************************************************************************)
RECURSIVE Pow2(_)
Pow2(n) == IF n = 0 THEN 1 ELSE 2 * Pow2(n - 1)

One == Pow2(FracBits)

MaxFiniteN == (Pow2(MantBits) - 1) * Pow2(MaxExp)

Fin(n) == [k |-> "fin", n |-> n]
PosInf == [k |-> "inf", n |-> 1]
NegInf == [k |-> "inf", n |-> -1]
NaN == [k |-> "nan", n |-> 0]

Abs(i) == IF i < 0 THEN -i ELSE i
Sgn(i) == IF i < 0 THEN -1 ELSE IF i > 0 THEN 1 ELSE 0

\* the least e >= e0 with a < 2^(MantBits + e): the exponent of a's ulp
RECURSIVE ExpOf(_, _)
ExpOf(a, e) == IF a < Pow2(MantBits + e) THEN e ELSE ExpOf(a, e + 1)

\* a >= 0 rounded to MantBits significant bits, ties to the even significand
RoundMag(a) ==
    LET e == ExpOf(a, 0)
        q == a \div Pow2(e)
        r == a % Pow2(e)
        up == 2 * r > Pow2(e) \/ (2 * r = Pow2(e) /\ q % 2 = 1)
    IN  (IF up THEN q + 1 ELSE q) * Pow2(e)

\* the float nearest to the exact value of x units; beyond the largest
\* finite float the result is an infinity
FRound(x) ==
    IF RoundMag(Abs(x)) > MaxFiniteN
    THEN (IF x > 0 THEN PosInf ELSE NegInf)
    ELSE Fin(Sgn(x) * RoundMag(Abs(x)))

\* a + b on floats
FAdd(a, b) ==
    IF a.k = "nan" \/ b.k = "nan" THEN NaN
    ELSE IF a.k = "inf" /\ b.k = "inf" THEN (IF a.n = b.n THEN a ELSE NaN)
    ELSE IF a.k = "inf" THEN a
    ELSE IF b.k = "inf" THEN b
    ELSE FRound(a.n + b.n)

\* a * b on floats, b holding an integral value (a converted int)
FMul(a, b) ==
    IF a.k = "nan" \/ b.k = "nan" THEN NaN
    ELSE IF (a.k = "inf" /\ b.n = 0) \/ (b.k = "inf" /\ a.n = 0) THEN NaN
    ELSE IF a.k = "inf" \/ b.k = "inf"
         THEN (IF Sgn(a.n) * Sgn(b.n) > 0 THEN PosInf ELSE NegInf)
    ELSE FRound(a.n * (b.n \div One))

\* the result of a conversion or an operation that may raise
Ok(v) == [err |-> "none", val |-> v]
Raise(e) == [err |-> e, val |-> NaN]

\* float(i) of a Python int: OverflowError beyond the float range
IntToFloat(i) ==
    IF FRound(i * One).k = "inf" THEN Raise("OverflowError")
    ELSE Ok(FRound(i * One))

\* int(f) of a Python float: truncation toward zero
FloatToInt(f) ==
    IF f.k = "nan" THEN Raise("ValueError")
    ELSE IF f.k = "inf" THEN Raise("OverflowError")
    ELSE Ok(Sgn(f.n) * (Abs(f.n) \div One))

\* f * i of a float and a Python int: the int is converted to float first
FMulInt(f, i) ==
    IF IntToFloat(i).err # "none" THEN Raise(IntToFloat(i).err)
    ELSE Ok(FMul(f, IntToFloat(i).val))

\* h halves as a float: Halves(3) is 1.5
Halves(h) == Fin(h * Pow2(FracBits - 1))

(***************************************************************************)
(* Deserialized JSON values.                                               *)
(***************************************************************************)
\* a value is the pair of its type and its content
Null == <<"null", 0>>
Bool(b) == <<"bool", b>>
Int_(i) == <<"int", i>>
Flt(f) == <<"float", f>>
Str(s) == <<"str", s>>
Lst(s) == <<"list", s>>
Dict(d) == <<"dict", d>>

Tag(x) == x[1]
Val(x) == x[2]

\* isinstance(x, list), isinstance(x, dict)
IsList(x) == Tag(x) = "list"
IsDict(x) == Tag(x) = "dict"

\* d.get(key) and d.get(key, default)
GetDefault(d, key, default) == IF key \in DOMAIN Val(d) THEN Val(d)[key] ELSE default
Get(d, key) == GetDefault(d, key, Null)

\* hash(x) raises TypeError for a list or a dict
Hashable(x) == Tag(x) \notin {"list", "dict"}

\* an int too large to convert to float
Huge == Pow2(MantBits + MaxExp)

\* float(s) of the strings the inputs hold; any other text is a ValueError
FloatOfStr(s) ==
    CASE s = "1.50" -> Ok(Halves(3))
      [] s = "2" -> Ok(Halves(4))
      [] s = "-1" -> Ok(Halves(-2))
      [] s = "nan" -> Ok(NaN)
      [] OTHER -> Raise("ValueError")

\* int(s) of the strings the inputs hold: only integer literals convert
IntOfStr(s) ==
    CASE s = "2" -> Ok(2)
      [] s = "-1" -> Ok(-1)
      [] OTHER -> Raise("ValueError")

\* float(x)
ToFloat(x) ==
    CASE Tag(x) = "float" -> Ok(Val(x))
      [] Tag(x) = "int" -> IntToFloat(Val(x))
      [] Tag(x) = "bool" -> Ok(IF Val(x) THEN Halves(2) ELSE Halves(0))
      [] Tag(x) = "str" -> FloatOfStr(Val(x))
      [] OTHER -> Raise("TypeError")

\* int(x)
ToInt(x) ==
    CASE Tag(x) = "int" -> Ok(Val(x))
      [] Tag(x) = "float" -> FloatToInt(Val(x))
      [] Tag(x) = "bool" -> Ok(IF Val(x) THEN 1 ELSE 0)
      [] Tag(x) = "str" -> IntOfStr(Val(x))
      [] OTHER -> Raise("TypeError")

(***************************************************************************)
(* Diagnostics printed to standard output: what was printed and the index, *)
(* title or product the message names.                                     *)
(***************************************************************************)
Diag(kind, ref) == <<kind, ref>>

EmptyMap == [x \in {} |-> NaN]

\* a mapping that keeps the first price of a title (setdefault)
MapPutKeepFirst(pm, title, price) ==
    [x \in DOMAIN pm \cup {title} |-> IF x \in DOMAIN pm THEN pm[x] ELSE price]

\* price_map[title] = price
MapPut(pm, title, price) ==
    [x \in DOMAIN pm \cup {title} |-> IF x = title THEN price ELSE pm[x]]

\* the exceptions the two try blocks catch
Caught == {"ValueError", "TypeError"}

(***************************************************************************)
(* create_price_catalogue: one pass of the loop body over item number idx. *)
(* The assignment price_map[title] = price is inside the try block, so the *)
(* TypeError of an unhashable title is caught like a bad price.            *)
(***************************************************************************)
CatSkip(pm, o, kind, ref) ==
    [pm |-> pm, out |-> Append(o, Diag(kind, ref)), err |-> "none"]

\* the loop body without the check of the title
CatItemNoTitleCheck(pm, o, idx, item) ==
    LET title == Get(item, "title")
        price == Get(item, "price")
        conv == ToFloat(price)
    IN  IF ~IsDict(item) THEN CatSkip(pm, o, "cat_not_dict", Int_(idx))
        ELSE IF price = Null THEN CatSkip(pm, o, "cat_no_price", title)
        ELSE IF conv.err \in Caught THEN CatSkip(pm, o, "cat_bad_price", title)
        ELSE IF conv.err # "none" THEN [pm |-> pm, out |-> o, err |-> conv.err]
        ELSE IF ~Hashable(title) THEN CatSkip(pm, o, "cat_bad_price", title)
        ELSE [pm |-> MapPut(pm, title, conv.val), out |-> o, err |-> "none"]

CatItem(pm, o, idx, item) ==
    LET title == Get(item, "title")
        price == Get(item, "price")
        conv == ToFloat(price)
    IN  IF ~IsDict(item) THEN CatSkip(pm, o, "cat_not_dict", Int_(idx))
        ELSE IF title = Null THEN CatSkip(pm, o, "cat_no_title", Int_(idx))
        ELSE IF price = Null THEN CatSkip(pm, o, "cat_no_price", title)
        ELSE IF conv.err \in Caught THEN CatSkip(pm, o, "cat_bad_price", title)
        ELSE IF conv.err # "none" THEN [pm |-> pm, out |-> o, err |-> conv.err]
        ELSE IF ~Hashable(title) THEN CatSkip(pm, o, "cat_bad_price", title)
        ELSE [pm |-> MapPut(pm, title, conv.val), out |-> o, err |-> "none"]

(***************************************************************************)
(* compute_sales: one pass of the loop body over record number idx.        *)
(***************************************************************************)
SaleSkip(total, details, o, kind, ref) ==
    [total |-> total, details |-> details,
     out |-> Append(o, Diag(kind, ref)), err |-> "none"]

SaleRaise(total, details, o, e) ==
    [total |-> total, details |-> details, out |-> o, err |-> e]

\* a line item whose cost is the unit price, the quantity forgotten
LineItemNoQty(sale_id, sale_date, product, quantity, unit_price, sales_cost) ==
    [sale_id |-> sale_id, date |-> sale_date, product |-> product,
     quantity |-> quantity, unit_price |-> unit_price,
     sales_cost |-> unit_price]

\* the dictionary appended to sales_details
LineItem(sale_id, sale_date, product, quantity, unit_price, sales_cost) ==
    [sale_id |-> sale_id, date |-> sale_date, product |-> product,
     quantity |-> quantity, unit_price |-> unit_price,
     sales_cost |-> sales_cost]

\* a total that starts from 1.0
InitialTotalOne == Halves(2)

\* total_cost = 0.0
InitialTotal == Halves(0)

\* a total to which the unit price is added, not the line cost
AccumulateUnitPrice(total, unit_price, sales_cost) == FAdd(total, unit_price)

\* a total that is assigned (=) where it should be added to (+=)
AccumulateOverwrite(total, unit_price, sales_cost) == sales_cost

\* total_cost += sales_cost
Accumulate(total, unit_price, sales_cost) == FAdd(total, sales_cost)

SaleItem(cat, total, details, o, idx, sale) ==
    LET product == Get(sale, "Product")
        quantity == Get(sale, "Quantity")
        sale_id == GetDefault(sale, "SALE_ID", Str("N/A"))
        sale_date == GetDefault(sale, "SALE_Date", Str("N/A"))
        qty == ToInt(quantity)
        unit_price == cat[product]
        sales_cost == FMulInt(unit_price, qty.val)
    IN  IF ~IsDict(sale)
        THEN SaleSkip(total, details, o, "sale_not_dict", Int_(idx))
        ELSE IF product = Null
        THEN SaleSkip(total, details, o, "sale_no_product", Int_(idx))
        ELSE IF quantity = Null
        THEN SaleSkip(total, details, o, "sale_no_quantity", Int_(idx))
        ELSE IF qty.err \in Caught
        THEN SaleSkip(total, details, o, "sale_bad_quantity", Int_(idx))
        ELSE IF qty.err # "none" THEN SaleRaise(total, details, o, qty.err)
        ELSE IF ~Hashable(product)
        THEN SaleRaise(total, details, o, "TypeError")
        ELSE IF product \notin DOMAIN cat
        THEN SaleSkip(total, details, o, "sale_not_found", product)
        ELSE IF sales_cost.err # "none"
        THEN SaleRaise(total, details, o, sales_cost.err)
        ELSE [total |-> Accumulate(total, unit_price, sales_cost.val),
              details |-> Append(details,
                  LineItem(sale_id, sale_date, product, qty.val, unit_price,
                           sales_cost.val)),
              out |-> o, err |-> "none"]

\* compute_sales as a function of its arguments: the loop from record i on
RECURSIVE SalesFrom(_, _, _, _)
SalesFrom(cat, data, i, acc) ==
    IF acc.err # "none" \/ i >= Len(data) THEN acc
    ELSE SalesFrom(cat, data, i + 1,
             SaleItem(cat, acc.total, acc.details, acc.out, i, data[i + 1]))

ComputeSales(data, cat) ==
    IF ~IsList(data)
    THEN SaleSkip(InitialTotal, <<>>, <<>>, "sales_not_list", Int_(0))
    ELSE SalesFrom(cat, Val(data), 0,
                   SaleRaise(InitialTotal, <<>>, <<>>, "none"))

(***************************************************************************)
(* Inputs.                                                                 *)
(***************************************************************************)
SeqsUpTo(S, n) == UNION {[1..k -> S] : k \in 0..n}

\* a variable that has not been assigned yet
Unset == <<"unset", 0>>

\* values that are not lists: null, text, a number, a single record
NonLists == {Null, Str("x"), Int_(2),
             Dict([title |-> Str("A"), price |-> Int_(2)])}

CatTitles == {Null, Str("A"), Str("B"), Lst(<<>>)}
CatPrices == {Null, Str("1.50"), Int_(2), Str("abc"), Str("nan"), Int_(-1),
              Flt(PosInf), Int_(Huge)}

\* catalogue entries: records with title and price, a record without a
\* price key, and an entry that is not a record
CatEntries ==
    {Dict([title |-> t, price |-> p]) : t \in CatTitles, p \in CatPrices}
        \cup {Dict([title |-> Str("A")]), Str("x")}

CatInputs == {Lst(s) : s \in SeqsUpTo(CatEntries, MaxCat)} \cup NonLists

SaleRec(p, q) == Dict([Product |-> p, Quantity |-> q])

SaleProducts == {Null, Str("A"), Str("B"), Lst(<<>>)}
SaleQuantities == {Null, Int_(2), Str("abc"), Flt(Halves(5)), Flt(PosInf),
                   Int_(Huge)}

\* a record carrying SALE_ID and SALE_Date, and one whose SALE_Date is null
DatedSale == Dict([SALE_ID |-> Int_(7), SALE_Date |-> Str("01/01/26"),
                   Product |-> Str("A"), Quantity |-> Str("2")])
NullDateSale == Dict([SALE_Date |-> Null, Product |-> Str("A"),
                      Quantity |-> Int_(2)])

\* sale records: every combination of Product and Quantity, a record
\* without a Quantity key, a dated record, and an entry that is not a record
SaleRecords ==
    {SaleRec(p, q) : p \in SaleProducts, q \in SaleQuantities}
        \cup {Dict([Product |-> Str("A")]), DatedSale, Str("x")}

\* well-formed sales of catalogue products, with positive and negative
\* quantities
PermRecords ==
    {SaleRec(Str(p), Int_(q)) : p \in {"A", "B"}, q \in {1, -1}}

SalesInputs ==
    {Lst(s) : s \in SeqsUpTo(SaleRecords, MaxSales)}
        \cup {Lst(s) : s \in SeqsUpTo(PermRecords, MaxPerm)}
        \cup NonLists

\* price catalogues handed to compute_sales: empty, ordinary prices, the
\* largest finite float, and the negative and NaN prices float() lets in
Catalogues ==
    {EmptyMap,
     (Str("A") :> Halves(3)),
     (Str("A") :> Halves(3)) @@ (Str("B") :> Halves(4)),
     (Str("A") :> Fin(MaxFiniteN)) @@ (Str("B") :> Halves(1)),
     (Str("A") :> NaN) @@ (Str("B") :> Halves(-2))}

\* what the two files of a run of main hold
MainCatEntries ==
    {Dict([title |-> Str("A"), price |-> p]) :
        p \in {Str("1.50"), Str("abc"), Int_(Huge)}}
MainCatInputs ==
    {Lst(s) : s \in SeqsUpTo(MainCatEntries, MaxLoad)}
        \cup {Dict([title |-> Str("A"), price |-> Int_(2)])}
MainSaleRecords ==
    {SaleRec(Str("A"), Int_(2)), SaleRec(Str("A"), Null),
     SaleRec(Lst(<<>>), Int_(2)), DatedSale, NullDateSale, Str("x")}
MainSalesInputs ==
    {Lst(s) : s \in SeqsUpTo(MainSaleRecords, MaxLoad)}
        \cup {SaleRec(Str("A"), Int_(2))}

\* how load_json_file ends: with the parsed document (None when the document
\* is null), with a caught FileNotFoundError, JSONDecodeError or OSError
\* (None), or with an exception it does not catch (UnicodeDecodeError)
LoadOutcomes == {"parsed", "caught", "uncaught"}

(***************************************************************************)
(* create_price_catalogue.                                                 *)
(***************************************************************************)
callVars == <<argc, exit_code, saved>>

\* catalogue_data is not a list: one message, the empty mapping is returned
CatNotList ==
    /\ pc = "cat_entry"
    /\ ~IsList(catalogue_data)
    /\ price_map' = EmptyMap
    /\ out' = Append(out, Diag("cat_not_list", Int_(0)))
    /\ pc' = "cat_done"
    /\ UNCHANGED <<catalogue_data, sales_data, cidx, price_catalogue,
                   total_cost, sales_details, sidx, exc>>
    /\ UNCHANGED callVars

CatBegin ==
    /\ pc = "cat_entry"
    /\ IsList(catalogue_data)
    /\ price_map' = EmptyMap
    /\ cidx' = 0
    /\ pc' = "cat_loop"
    /\ UNCHANGED <<catalogue_data, sales_data, price_catalogue, total_cost,
                   sales_details, sidx, out, exc>>
    /\ UNCHANGED callVars

\* one iteration of the for loop; an exception the try block does not catch
\* leaves the function
CatIter ==
    /\ pc = "cat_loop"
    /\ cidx < Len(Val(catalogue_data))
    /\ LET r == CatItem(price_map, out, cidx, Val(catalogue_data)[cidx + 1])
       IN  /\ price_map' = r.pm
           /\ out' = r.out
           /\ exc' = r.err
           /\ cidx' = IF r.err = "none" THEN cidx + 1 ELSE cidx
           /\ pc' = IF r.err = "none" THEN "cat_loop" ELSE "raised"
    /\ UNCHANGED <<catalogue_data, sales_data, price_catalogue, total_cost,
                   sales_details, sidx>>
    /\ UNCHANGED callVars

CatReturn ==
    /\ pc = "cat_loop"
    /\ cidx = Len(Val(catalogue_data))
    /\ pc' = "cat_done"
    /\ UNCHANGED <<catalogue_data, sales_data, price_map, cidx,
                   price_catalogue, total_cost, sales_details, sidx, out,
                   exc>>
    /\ UNCHANGED callVars

(***************************************************************************)
(* compute_sales.                                                          *)
(***************************************************************************)
\* sales_data is not a list: one message, (0.0, []) is returned
SalesNotList ==
    /\ pc = "sales_entry"
    /\ ~IsList(sales_data)
    /\ total_cost' = InitialTotal
    /\ sales_details' = <<>>
    /\ out' = Append(out, Diag("sales_not_list", Int_(0)))
    /\ pc' = "sales_done"
    /\ UNCHANGED <<catalogue_data, sales_data, price_map, cidx,
                   price_catalogue, sidx, exc>>
    /\ UNCHANGED callVars

SalesBegin ==
    /\ pc = "sales_entry"
    /\ IsList(sales_data)
    /\ total_cost' = InitialTotal
    /\ sales_details' = <<>>
    /\ sidx' = 0
    /\ pc' = "sales_loop"
    /\ UNCHANGED <<catalogue_data, sales_data, price_map, cidx,
                   price_catalogue, out, exc>>
    /\ UNCHANGED callVars

\* one iteration of the for loop; int(), the membership test and the
\* multiplication are outside any try block that catches what they raise
SalesIter ==
    /\ pc = "sales_loop"
    /\ sidx < Len(Val(sales_data))
    /\ LET r == SaleItem(price_catalogue, total_cost, sales_details, out,
                         sidx, Val(sales_data)[sidx + 1])
       IN  /\ total_cost' = r.total
           /\ sales_details' = r.details
           /\ out' = r.out
           /\ exc' = r.err
           /\ sidx' = IF r.err = "none" THEN sidx + 1 ELSE sidx
           /\ pc' = IF r.err = "none" THEN "sales_loop" ELSE "raised"
    /\ UNCHANGED <<catalogue_data, sales_data, price_map, cidx,
                   price_catalogue>>
    /\ UNCHANGED callVars

SalesReturn ==
    /\ pc = "sales_loop"
    /\ sidx = Len(Val(sales_data))
    /\ pc' = "sales_done"
    /\ UNCHANGED <<catalogue_data, sales_data, price_map, cidx,
                   price_catalogue, total_cost, sales_details, sidx, out,
                   exc>>
    /\ UNCHANGED callVars

(***************************************************************************)
(* main.                                                                   *)
(***************************************************************************)
fnVars == <<price_map, cidx, price_catalogue, total_cost, sales_details,
            sidx>>

\* load_json_file(filename): the value returned, what it printed, and the
\* exception that leaves it
LoadJsonFile(outcome, doc, file) ==
    CASE outcome = "parsed" -> [data |-> doc, out |-> <<>>, err |-> "none"]
      [] outcome = "caught" ->
            [data |-> Null, out |-> <<Diag("read_error", Str(file))>>,
             err |-> "none"]
      [] OTHER -> [data |-> Unset, out |-> <<>>, err |-> "UnicodeDecodeError"]

\* a check for None that never fires
IsNoneNever(x) == FALSE

\* x is None
IsNone(x) == x = Null

\* len(sys.argv) != 3: usage and exit status 1
MainArgs ==
    /\ pc = "start"
    /\ IF argc # 3
       THEN /\ out' = Append(out, Diag("usage", Int_(argc)))
            /\ exit_code' = 1
            /\ pc' = "exited"
       ELSE /\ out' = Append(out, Diag("starting", Int_(0)))
            /\ pc' = "load_cat"
            /\ UNCHANGED exit_code
    /\ UNCHANGED <<argc, catalogue_data, sales_data, exc, saved>>
    /\ UNCHANGED fnVars

MainLoadCatalogue ==
    /\ pc = "load_cat"
    /\ \E o \in LoadOutcomes, d \in MainCatInputs \cup {Null} :
         LET r == LoadJsonFile(o, d, "catalogue")
         IN  IF r.err # "none"
             THEN /\ exc' = r.err
                  /\ exit_code' = 1
                  /\ pc' = "exited"
                  /\ UNCHANGED <<catalogue_data, out>>
             ELSE /\ catalogue_data' = r.data
                  /\ UNCHANGED exc
                  /\ IF IsNone(r.data)
                     THEN /\ out' = Append(out \o r.out,
                                       Diag("load_failed", Str("catalogue")))
                          /\ exit_code' = 1
                          /\ pc' = "exited"
                     ELSE /\ out' = out \o r.out
                          /\ pc' = "load_sales"
                          /\ UNCHANGED exit_code
    /\ UNCHANGED <<argc, sales_data, saved>>
    /\ UNCHANGED fnVars

\* after the second load main calls create_price_catalogue(catalogue_data)
MainLoadSales ==
    /\ pc = "load_sales"
    /\ \E o \in LoadOutcomes, d \in MainSalesInputs \cup {Null} :
         LET r == LoadJsonFile(o, d, "sales")
         IN  IF r.err # "none"
             THEN /\ exc' = r.err
                  /\ exit_code' = 1
                  /\ pc' = "exited"
                  /\ UNCHANGED <<sales_data, out>>
             ELSE /\ sales_data' = r.data
                  /\ UNCHANGED exc
                  /\ IF IsNone(r.data)
                     THEN /\ out' = Append(out \o r.out,
                                       Diag("load_failed", Str("sales")))
                          /\ exit_code' = 1
                          /\ pc' = "exited"
                     ELSE /\ out' = out \o r.out
                          /\ pc' = "cat_entry"
                          /\ UNCHANGED exit_code
    /\ UNCHANGED <<argc, catalogue_data, saved>>
    /\ UNCHANGED fnVars

\* price_catalogue = create_price_catalogue(...) has returned; main prints
\* the number of products and calls compute_sales(sales_data, price_catalogue)
MainBuilt ==
    /\ pc = "cat_done"
    /\ price_catalogue' = price_map
    /\ out' = Append(out, Diag("loaded", Int_(Cardinality(DOMAIN price_map))))
    /\ pc' = "sales_entry"
    /\ UNCHANGED <<argc, catalogue_data, sales_data, price_map, cidx,
                   total_cost, sales_details, sidx, exc, exit_code, saved>>

\* the row of a line item formats its date with a width: a TypeError for
\* None, a list or a dict
Formattable(x) == Tag(x) \notin {"null", "list", "dict"}

Report(details, total) == Diag("report", [items |-> details, total |-> total])

\* compute_sales has returned; main prints the count, formats the report
\* and prints it
MainReport ==
    /\ pc = "sales_done"
    /\ IF \A i \in 1..Len(sales_details) : Formattable(sales_details[i].date)
       THEN /\ out' = out \o <<Diag("processed", Int_(Len(sales_details))),
                               Report(sales_details, total_cost)>>
            /\ pc' = "save"
            /\ UNCHANGED <<exc, exit_code>>
       ELSE /\ out' = Append(out, Diag("processed", Int_(Len(sales_details))))
            /\ exc' = "TypeError"
            /\ exit_code' = 1
            /\ pc' = "exited"
    /\ UNCHANGED <<argc, catalogue_data, sales_data, saved>>
    /\ UNCHANGED fnVars

\* save_results appends the report to the results file, or prints the
\* OSError it caught; main then ends and the exit status is 0
MainSave ==
    /\ pc = "save"
    /\ \E written \in BOOLEAN :
         IF written
         THEN /\ saved' = Append(saved, Report(sales_details, total_cost))
              /\ out' = Append(out, Diag("saved", Int_(0)))
         ELSE /\ saved' = saved
              /\ out' = Append(out, Diag("save_error", Int_(0)))
    /\ exit_code' = 0
    /\ pc' = "exited"
    /\ UNCHANGED <<argc, catalogue_data, sales_data, exc>>
    /\ UNCHANGED fnVars

\* an exception that left create_price_catalogue or compute_sales leaves
\* main too: traceback, exit status 1
MainCrash ==
    /\ pc = "raised"
    /\ exit_code' = 1
    /\ pc' = "exited"
    /\ UNCHANGED <<argc, catalogue_data, sales_data, out, exc, saved>>
    /\ UNCHANGED fnVars

(***************************************************************************)
(* Specifications.  Spec is a run of the program; SpecCalls is a call of   *)
(* create_price_catalogue or of compute_sales on arguments of any shape.   *)
(***************************************************************************)
NotExited == 0 - 1

Locals ==
    /\ price_map = EmptyMap
    /\ cidx = 0
    /\ total_cost = Halves(0)
    /\ sales_details = <<>>
    /\ sidx = 0
    /\ out = <<>>
    /\ exc = "none"
    /\ exit_code = NotExited
    /\ saved = <<>>

Init ==
    /\ pc = "start"
    /\ argc \in 1..4
    /\ catalogue_data = Unset
    /\ sales_data = Unset
    /\ price_catalogue = EmptyMap
    /\ Locals

FnNext ==
    \/ CatNotList \/ CatBegin \/ CatIter \/ CatReturn
    \/ SalesNotList \/ SalesBegin \/ SalesIter \/ SalesReturn

Next ==
    \/ MainArgs \/ MainLoadCatalogue \/ MainLoadSales \/ MainBuilt
    \/ MainReport \/ MainSave \/ MainCrash
    \/ FnNext

Spec == Init /\ [][Next]_vars

InitCalls ==
    /\ argc = 0
    /\ \/ /\ pc = "cat_entry"
          /\ catalogue_data \in CatInputs
          /\ sales_data = Unset
          /\ price_catalogue = EmptyMap
       \/ /\ pc = "sales_entry"
          /\ catalogue_data = Unset
          /\ sales_data \in SalesInputs
          /\ price_catalogue \in Catalogues
    /\ Locals

SpecCalls == InitCalls /\ [][FnNext]_vars

(***************************************************************************)
(* Properties.                                                             *)
(***************************************************************************)
\* a call of compute_sales on a list has returned
SalesReturned == pc = "sales_done" /\ IsList(sales_data)

\* a call of create_price_catalogue on a list has returned
CatReturned == pc = "cat_done" /\ IsList(catalogue_data)

\* the line costs added from left to right, starting from 0.0
RECURSIVE SumCosts(_)
SumCosts(d) ==
    IF d = <<>> THEN Halves(0)
    ELSE FAdd(SumCosts(SubSeq(d, 1, Len(d) - 1)), d[Len(d)].sales_cost)

\* C1: the total compute_sales returns is the sum of the sales_cost fields
\* of the line items it returns, added in order; it is 0.0 when there is no
\* line item.
C1_TotalIsSumOfLineCosts ==
    pc = "sales_done" =>
        /\ total_cost = SumCosts(sales_details)
        /\ (sales_details = <<>> => total_cost = Halves(0))

C1_Witness ==
    /\ SalesReturned
    /\ Len(sales_details) >= 2
    /\ total_cost.k = "fin"
    /\ total_cost.n > sales_details[1].sales_cost.n
    /\ Len(out) >= 1

\* C2: compute_sales never raises, whatever the types of the Product and
\* Quantity fields of the records.
C2_ComputeSalesNeverRaises == sales_data # Unset => pc # "raised"

\* the catalogue entries create_price_catalogue has gone through
CatSeen ==
    IF IsList(catalogue_data) /\ pc \in {"cat_loop", "cat_done", "raised"}
    THEN SubSeq(Val(catalogue_data), 1, cidx)
    ELSE <<>>

\* an entry that is a record with a non-null title and a non-null price
\* that float() converts
ValidEntry(e) ==
    /\ IsDict(e)
    /\ Get(e, "title") # Null
    /\ Get(e, "price") # Null
    /\ ToFloat(Get(e, "price")).err = "none"

\* a valid entry whose title can be a dictionary key
KeyedEntry(e) == ValidEntry(e) /\ Hashable(Get(e, "title"))

Last(S) == CHOOSE i \in S : \A j \in S : j <= i

\* C3 as stated: the key set of the returned mapping is exactly the set of
\* titles of the entries that are records with a non-null title and a
\* non-null price coercible to a number.
C3_KeysAreValidTitles ==
    CatReturned =>
        DOMAIN price_map =
            {Get(CatSeen[i], "title") :
                i \in {j \in 1..Len(CatSeen) : ValidEntry(CatSeen[j])}}

\* C3 amended: at every point of the pass, and so in the mapping returned,
\* the key set is exactly the set of titles of the entries seen so far that
\* are records with a non-null hashable title and a non-null price that
\* float() converts; an entry whose title is a list or a dict is skipped.
C3_KeysAreValidHashableTitles ==
    DOMAIN price_map =
        {Get(CatSeen[i], "title") :
            i \in {j \in 1..Len(CatSeen) : KeyedEntry(CatSeen[j])}}

C3_Witness ==
    /\ CatReturned
    /\ Cardinality(DOMAIN price_map) = 1
    /\ Len(out) = 1
    /\ \E i \in 1..Len(CatSeen) :
         ValidEntry(CatSeen[i]) /\ ~Hashable(Get(CatSeen[i], "title"))

\* the positions among the entries seen at which title t occurs
Occurrences(t) ==
    {i \in 1..Len(CatSeen) :
        IsDict(CatSeen[i]) /\ Get(CatSeen[i], "title") = t}

\* C4 as stated: a title that occurs in several entries is mapped to the
\* price of its last occurrence in input order.
C4_LastOccurrenceWins ==
    CatReturned =>
        \A i \in 1..Len(CatSeen) :
            LET t == Get(CatSeen[i], "title")
            IN  (IsDict(CatSeen[i]) /\ t # Null
                    /\ Cardinality(Occurrences(t)) >= 2) =>
                    /\ t \in DOMAIN price_map
                    /\ Ok(price_map[t]) =
                         ToFloat(Get(CatSeen[Last(Occurrences(t))], "price"))

\* C4 amended: a title of the mapping is mapped to the price, converted by
\* float(), of the last of its occurrences that is not skipped (a record
\* with a non-null price that float() converts); a later occurrence that is
\* skipped does not overwrite it.
C4_LastValidOccurrenceWins ==
    \A t \in DOMAIN price_map :
        LET valid == {i \in Occurrences(t) : KeyedEntry(CatSeen[i])}
        IN  /\ valid # {}
            /\ Ok(price_map[t]) = ToFloat(Get(CatSeen[Last(valid)], "price"))

C4_Witness ==
    /\ CatReturned
    /\ Len(CatSeen) = 2
    /\ KeyedEntry(CatSeen[1]) /\ KeyedEntry(CatSeen[2])
    /\ Get(CatSeen[1], "title") = Get(CatSeen[2], "title")
    /\ ToFloat(Get(CatSeen[1], "price")) # ToFloat(Get(CatSeen[2], "price"))
    /\ Ok(price_map[Get(CatSeen[2], "title")]) =
           ToFloat(Get(CatSeen[2], "price"))

\* C5: every price stored in the mapping is a finite, non-negative number.
C5_PricesFiniteNonNegative ==
    pc = "cat_done" =>
        \A t \in DOMAIN price_map :
            price_map[t].k = "fin" /\ price_map[t].n >= 0

\* the sale records compute_sales has gone through
SalesSeen ==
    IF IsList(sales_data) /\ pc \in {"sales_loop", "sales_done", "raised"}
    THEN SubSeq(Val(sales_data), 1, sidx)
    ELSE <<>>

\* the validation gates: a record, Product and Quantity not null, Quantity
\* converted by int(), Product a key of the catalogue
PassesGates(s, cat) ==
    /\ IsDict(s)
    /\ Get(s, "Product") # Null
    /\ Get(s, "Quantity") # Null
    /\ ToInt(Get(s, "Quantity")).err = "none"
    /\ Get(s, "Product") \in DOMAIN cat

\* the line item of a record that passes the gates
ItemOf(s, cat) ==
    [sale_id |-> GetDefault(s, "SALE_ID", Str("N/A")),
     date |-> GetDefault(s, "SALE_Date", Str("N/A")),
     product |-> Get(s, "Product"),
     quantity |-> ToInt(Get(s, "Quantity")).val,
     unit_price |-> cat[Get(s, "Product")],
     sales_cost |-> FMulInt(cat[Get(s, "Product")],
                            ToInt(Get(s, "Quantity")).val).val]

RECURSIVE ItemsOf(_, _)
ItemsOf(recs, cat) ==
    IF recs = <<>> THEN <<>>
    ELSE LET front == ItemsOf(SubSeq(recs, 1, Len(recs) - 1), cat)
             s == recs[Len(recs)]
         IN  IF PassesGates(s, cat) THEN Append(front, ItemOf(s, cat))
             ELSE front

\* C6: the line items are exactly the records that pass every validation
\* gate, one item per record, in input order, each with the catalogue price
\* of its product as unit_price and unit_price times the converted quantity
\* as line cost.  It holds of the items collected at every point of the
\* pass, and so of the items returned.
C6_LineItemsAreTheValidRecords ==
    /\ sales_details = ItemsOf(SalesSeen, price_catalogue)
    /\ (SalesReturned => SalesSeen = Val(sales_data))

C6_Witness ==
    /\ SalesReturned
    /\ Len(sales_details) = 2
    /\ sales_details[1] # sales_details[2]
    /\ Len(Val(sales_data)) = 3
    /\ ~PassesGates(Val(sales_data)[2], price_catalogue)

\* the kinds of message main and the two functions print
Kinds(o) == {o[i][1] : i \in 1..Len(o)}
Position(o, kind) == CHOOSE i \in 1..Len(o) : o[i][1] = kind
Loaded(x) == x # Unset /\ x # Null

\* C7: when loading either source fails the program exits with a non-zero
\* status before create_price_catalogue or compute_sales is invoked and
\* before any report is printed or saved; the build, the aggregation and the
\* report happen in this order, and exit status 0 is reached, only when both
\* loads succeeded.
C7_LoadFailureHaltsBeforePipeline ==
    /\ (~Loaded(catalogue_data) \/ ~Loaded(sales_data)) =>
          /\ pc \in {"start", "load_cat", "load_sales", "exited"}
          /\ pc = "exited" =>
                /\ exit_code = 1
                /\ \/ out[Len(out)][1] \in {"usage", "load_failed"}
                   \/ exc # "none"
          /\ Kinds(out) \cap {"loaded", "processed", "report", "saved"} = {}
          /\ saved = <<>>
    /\ pc = "load_sales" => Loaded(catalogue_data)
    /\ "processed" \in Kinds(out) =>
          /\ "loaded" \in Kinds(out)
          /\ Position(out, "loaded") < Position(out, "processed")
    /\ "report" \in Kinds(out) =>
          /\ "processed" \in Kinds(out)
          /\ Position(out, "processed") < Position(out, "report")
    /\ saved # <<>> => "report" \in Kinds(out)
    /\ exit_code = 0 =>
          /\ Loaded(catalogue_data) /\ Loaded(sales_data)
          /\ "report" \in Kinds(out)

C7_Witness ==
    /\ pc = "exited"
    /\ Loaded(catalogue_data)
    /\ sales_data = Null
    /\ exit_code = 1
    /\ out[Len(out)] = Diag("load_failed", Str("sales"))

\* C8: an empty list and a value that is not a list give a degraded result,
\* not an error: create_price_catalogue returns the empty mapping;
\* compute_sales returns 0.0 and no line item; a value that is not a list
\* costs exactly one message and no record is examined.
C8_DegenerateInputs ==
    /\ (catalogue_data # Unset /\ ~IsList(catalogue_data)) =>
          /\ pc \in {"cat_entry", "cat_done"}
          /\ pc = "cat_done" =>
                /\ DOMAIN price_map = {}
                /\ out = <<Diag("cat_not_list", Int_(0))>>
                /\ cidx = 0
    /\ (IsList(catalogue_data) /\ Val(catalogue_data) = <<>>) =>
          /\ pc \in {"cat_entry", "cat_loop", "cat_done"}
          /\ pc = "cat_done" => DOMAIN price_map = {} /\ out = <<>>
    /\ (sales_data # Unset /\ ~IsList(sales_data)) =>
          /\ pc \in {"sales_entry", "sales_done"}
          /\ pc = "sales_done" =>
                /\ total_cost = Halves(0)
                /\ sales_details = <<>>
                /\ out = <<Diag("sales_not_list", Int_(0))>>
                /\ sidx = 0
    /\ (IsList(sales_data) /\ Val(sales_data) = <<>>) =>
          /\ pc \in {"sales_entry", "sales_loop", "sales_done"}
          /\ pc = "sales_done" =>
                /\ total_cost = Halves(0)
                /\ sales_details = <<>>
                /\ out = <<>>

C8_Witness ==
    /\ pc = "sales_done"
    /\ sales_data = Dict([title |-> Str("A"), price |-> Int_(2)])
    /\ price_catalogue # EmptyMap
    /\ Len(out) = 1

\* the rearrangements of a sequence
Perms(q) ==
    {[i \in 1..Len(q) |-> q[f[i]]] :
        f \in {g \in [1..Len(q) -> 1..Len(q)] :
                  \A i, j \in 1..Len(q) : g[i] = g[j] => i = j}}

\* a sequence as a multiset
BagOf(q) ==
    [x \in {q[i] : i \in 1..Len(q)} |->
        Cardinality({i \in 1..Len(q) : q[i] = x})]

\* the exact sum, in units, of finite line costs
RECURSIVE UnitSum(_)
UnitSum(d) ==
    IF d = <<>> THEN 0
    ELSE UnitSum(SubSeq(d, 1, Len(d) - 1)) + d[Len(d)].sales_cost.n

\* every line cost is finite and every running sum is a float: no addition
\* of the pass rounds or overflows
ExactSums(d) ==
    \A n \in 1..Len(d) :
        /\ d[n].sales_cost.k = "fin"
        /\ FRound(UnitSum(SubSeq(d, 1, n))) = Fin(UnitSum(SubSeq(d, 1, n)))

\* C9 as stated: for a fixed catalogue compute_sales returns the same
\* total_cost for every permutation of the list of sale records.
C9_TotalIsOrderIndependent ==
    SalesReturned =>
        \A p \in Perms(Val(sales_data)) :
            ComputeSales(Lst(p), price_catalogue).total = total_cost

\* C9 amended: for a fixed catalogue every permutation of the records gives
\* the same multiset of line items, and the same total_cost whenever in both
\* orders every running sum of the line costs is exactly representable;
\* float addition rounds and overflows, so the totals may differ otherwise.
C9_TotalIsOrderIndependentWhenExact ==
    SalesReturned =>
        \A p \in Perms(Val(sales_data)) :
            LET r == ComputeSales(Lst(p), price_catalogue)
            IN  /\ r.err = "none"
                /\ BagOf(r.details) = BagOf(sales_details)
                /\ (ExactSums(r.details) /\ ExactSums(sales_details)) =>
                      r.total = total_cost

C9_Witness ==
    /\ SalesReturned
    /\ Len(sales_details) = 3
    /\ ExactSums(sales_details)
    /\ sales_details[1].sales_cost # sales_details[3].sales_cost
    /\ total_cost # Halves(0)

\* the message of the first gate a record fails, in the order not a record,
\* Product missing, Quantity missing, Quantity not converted by int(),
\* Product not in the catalogue
FirstFailure(s, cat, idx) ==
    IF ~IsDict(s) THEN Diag("sale_not_dict", Int_(idx))
    ELSE IF Get(s, "Product") = Null THEN Diag("sale_no_product", Int_(idx))
    ELSE IF Get(s, "Quantity") = Null THEN Diag("sale_no_quantity", Int_(idx))
    ELSE IF ToInt(Get(s, "Quantity")).err # "none"
    THEN Diag("sale_bad_quantity", Int_(idx))
    ELSE Diag("sale_not_found", Get(s, "Product"))

\* C10: every record of the list gets exactly one terminal action: it is
\* accepted (one line item appended, the total increased by its line cost,
\* no message) or it is skipped with exactly one message, that of the first
\* gate it fails, the total and the line items unchanged; the messages
\* follow the input order, and a missing Quantity is reported by the index.
C10_OneTerminalActionPerRecord ==
    [][(pc = "sales_loop" /\ sidx < Len(Val(sales_data))) =>
          LET s == Val(sales_data)[sidx + 1]
          IN  /\ pc' = "sales_loop"
              /\ sidx' = sidx + 1
              /\ IF PassesGates(s, price_catalogue)
                 THEN /\ Len(sales_details') = Len(sales_details) + 1
                      /\ SubSeq(sales_details', 1, Len(sales_details))
                            = sales_details
                      /\ total_cost' =
                            FAdd(total_cost,
                                 sales_details'[Len(sales_details')].sales_cost)
                      /\ out' = out
                 ELSE /\ sales_details' = sales_details
                      /\ total_cost' = total_cost
                      /\ out' = Append(out,
                                  FirstFailure(s, price_catalogue, sidx))
      ]_vars

====
